---- MODULE Spec2Model ----
(***************************************************************************)
(* Model of src/app.py, the Streamlit "Personalized Exam System".          *)
(*                                                                         *)
(* Streamlit executes the whole script from line 1 on every interaction    *)
(* of a browser session (a changed widget or a clicked button).  A run     *)
(* therefore reloads processed_data.csv (line 102), repeats the login      *)
(* check (113-126), renders the selected page (157-381) and, on the Take   *)
(* Exam page, draws the question sample again (280).  The only state that  *)
(* survives a run is the CSV file and the session's widget values and      *)
(* st.session_state.                                                       *)
(*                                                                         *)
(* Strings the code matches by pattern (topics, rule antecedents) are      *)
(* sequences of one-character strings; numbers stored in the CSV file are  *)
(* sequences of decimal digits; every cell of the file holds a value.      *)
(* Row labels are the positions 1..n of the loaded table (pandas numbers   *)
(* them from 0).                                                           *)
(***************************************************************************)
EXTENDS Integers, Sequences, FiniteSets, TLC

VARIABLES
    disk,            \* processed_data.csv: a sequence of rows of text cells
    rules,           \* fp_growth_rules.csv: the set of antecedents strings
    pc,              \* per session: position of the running script
    student_id,      \* per session: value of the sidebar text input (111)
    page,            \* per session: value of the navigation radio (131)
    radio,           \* per session: values of the radios keyed Q_<idx> (299-305)
    answers,         \* per session: st.session_state.answers (282-283, 306)
    submit,          \* per session: the Submit Exam button is set in this run (311)
    df,              \* per session: the script's table df (102, 334)
    exam_questions,  \* per session: the sampled row labels, in sample order (280)
    correct_count,   \* per session: correct_count of the Submit handler (313-319)
    screen           \* per session: what the last finished run left in the browser

vars == <<disk, rules, pc, student_id, page, radio, answers, submit, df,
          exam_questions, correct_count, screen>>

----------------------------------------------------------------------------
(* Bounds of the model *)

\* the user of a one-session run stops interacting once the store has more rows
MaxRows == 3
\* the same, for the runs that start from the five-row store
MaxRowsFive == 5
\* the same, for the runs with two concurrent sessions
MaxRowsRace == 2
\* the same, for the runs that start from the six-row store
MaxRowsPool == 6
\* the same, for the runs with two submissions in a row
MaxRowsRepeat == 4

(* Program constants *)

SampleSize == 5
TimeSpentLo == 15
TimeSpentHi == 60

Sessions == {"A", "B"}

\* values typed into the text input: nothing, students of the stores, a stranger
StudentInputs == {"", "S1", "S2", "S3", "S999"}

Pages == {"Dashboard", "Analytics", "Take Exam", "AI Recommendations"}

\* the radio positions a user picks: the first filler option and the last
\* option, which is the row's correct_answer (302)
RadioChoices == {0, 3}

\* the values random.randint(15, 60) is taken to return: both ends of the range
TimeSpentDraws == {TimeSpentLo, TimeSpentHi}

----------------------------------------------------------------------------
(* Text *)

Digits == <<"0", "1", "2", "3", "4", "5", "6", "7", "8", "9">>

RECURSIVE FormatInt(_)
FormatInt(n) ==
    IF n < 10 THEN <<Digits[n + 1]>>
    ELSE FormatInt(n \div 10) \o <<Digits[(n % 10) + 1]>>

DigitVal(c) == CHOOSE d \in 0..9 : Digits[d + 1] = c

RECURSIVE ParseInt(_)
ParseInt(s) ==
    IF Len(s) = 0 THEN 0
    ELSE ParseInt(SubSeq(s, 1, Len(s) - 1)) * 10 + DigitVal(s[Len(s)])

\* the topics of the stores
TopicAB == <<"a", "b">>
TopicADotB == <<"a", ".", "b">>

TopicPrefix == <<"T", "o", "p", "i", "c", "_">>

\* f"Topic_{topic}"
TopicPattern(topic) == TopicPrefix \o topic

\* antecedents cells, as mlxtend writes a set of items: {'Topic_x'}
Antecedent(item) == <<"{", "'">> \o item \o <<"'", "}">>

\* one pattern character against one subject character under re: "." matches
\* any character, everything else of the alphabet used here matches itself
ReCharMatches(p, c) == p = "." \/ p = c

ReMatchesAt(pat, s, i) ==
    /\ i + Len(pat) - 1 <= Len(s)
    /\ \A j \in 1..Len(pat) : ReCharMatches(pat[j], s[i + j - 1])

\* Series.str.contains(pat) with its defaults regex=True, case=True: re.search
str_contains(s, pat) == \E i \in 1..(Len(s) + 1) : ReMatchesAt(pat, s, i)

\* sub occurs in s character for character
LiteralContains(s, sub) ==
    \E i \in 1..(Len(s) + 1) :
        /\ i + Len(sub) - 1 <= Len(s)
        /\ SubSeq(s, i, i + Len(sub) - 1) = sub

----------------------------------------------------------------------------
(* The attempt store *)

Row(sid, qid, topic, diff, given, correct, ok, secs) ==
    [student_id |-> sid, question_id |-> qid, topic |-> topic,
     difficulty |-> diff, question_type |-> "MCQ", student_answer |-> given,
     correct_answer |-> correct, is_correct |-> ok, score |-> ok,
     time_spent |-> secs]

\* DataFrame.to_csv(index=False): numbers are written in decimal
CsvRow(r) ==
    [r EXCEPT !.question_id = FormatInt(@), !.is_correct = FormatInt(@),
              !.score = FormatInt(@), !.time_spent = FormatInt(@)]

to_csv(table) == [i \in 1..Len(table) |-> CsvRow(table[i])]

\* pd.read_csv: columns of digits are parsed as integers
ParseRow(r) ==
    [r EXCEPT !.question_id = ParseInt(@), !.is_correct = ParseInt(@),
              !.score = ParseInt(@), !.time_spent = ParseInt(@)]

read_csv(file) == [i \in 1..Len(file) |-> ParseRow(file[i])]

\* a two-row store with a single topic
StorePair ==
    << Row("S1", 1, TopicAB, "Easy", "Option B", "x", 0, 20),
       Row("S2", 2, TopicAB, "Hard", "Option A", "Option A", 1, 30) >>

\* a three-row store with a single topic
StoreThree ==
    << Row("S1", 1, TopicAB, "Easy", "Option B", "x", 0, 20),
       Row("S2", 2, TopicAB, "Hard", "Option A", "Option A", 1, 30),
       Row("S1", 3, TopicAB, "Easy", "y", "y", 1, 45) >>

\* a two-row store with two topics
StoreTwo ==
    << Row("S1", 1, TopicAB, "Easy", "Option B", "x", 0, 20),
       Row("S2", 2, TopicADotB, "Hard", "Option C", "y", 0, 30) >>

\* a five-row store with two topics
StoreFive ==
    << Row("S1", 1, TopicAB, "Easy", "Option B", "x", 0, 20),
       Row("S1", 2, TopicADotB, "Hard", "Option A", "y", 0, 30),
       Row("S2", 3, TopicADotB, "Hard", "Option C", "y", 0, 15),
       Row("S3", 4, TopicAB, "Easy", "x", "x", 1, 60),
       Row("S1", 5, TopicAB, "Easy", "Option A", "Option A", 1, 25) >>

\* a six-row store with a single topic
StoreSix ==
    << Row("S1", 1, TopicAB, "Easy", "Option B", "x", 0, 20),
       Row("S1", 2, TopicAB, "Hard", "Option A", "Option A", 1, 30),
       Row("S1", 3, TopicAB, "Easy", "y", "y", 1, 45),
       Row("S1", 4, TopicAB, "Hard", "Option C", "z", 0, 15),
       Row("S1", 5, TopicAB, "Easy", "x", "x", 1, 60),
       Row("S1", 6, TopicAB, "Hard", "y", "y", 1, 25) >>

\* rule tables: one naming Topic_ab and Topic_axb, one naming neither topic
RulesMatching == {Antecedent(TopicPrefix \o <<"a", "b">>),
                  Antecedent(TopicPrefix \o <<"a", "x", "b">>)}
RulesOther == {Antecedent(TopicPrefix \o <<"A", "b">>)}

----------------------------------------------------------------------------
(* Helpers of the script *)

Min(a, b) == IF a <= b THEN a ELSE b

Range(f) == {f[i] : i \in DOMAIN f}

\* the empty dict, and a dict restricted to some keys
EmptyMap == <<>>
Restrict(f, keys) == [x \in (DOMAIN f) \cap keys |-> f[x]]

\* the login check left out: every identifier passes
login_unchecked(sid, table) == TRUE

\* line 122: student_id in df["student_id"].values
login_ok(sid, table) == \E i \in 1..Len(table) : table[i].student_id = sid

\* lines 141-144: topics of the student's rows with is_correct == 0
weak_topics(sid, table) ==
    {table[i].topic : i \in {j \in 1..Len(table) :
        table[j].student_id = sid /\ table[j].is_correct = 0}}

\* lines 140-152: a weak topic is added once a rule's antecedents matches
\* the pattern Topic_<topic>
get_recommendations(sid, table, rls) ==
    {t \in weak_topics(sid, table) :
        \E a \in rls : str_contains(a, TopicPattern(t))}

\* line 276: df["topic"].unique()
unique_topics(table) == {table[i].topic : i \in 1..Len(table)}

\* line 278: the truth value of recs.  After the fallback recs is the array
\* of line 276, whose truth value is an error when it has more than one
\* element; a non-empty list is true.
truth_raises(fallback, recs) == fallback /\ Cardinality(recs) > 1

\* line 280: df[df["topic"].isin(recs)]
candidates(table, recs) == {i \in 1..Len(table) : table[i].topic \in recs}

\* line 280: the argument of sample
sample_size(table) == Min(SampleSize, Len(table))

\* line 280: DataFrame.sample(n) draws n distinct rows in random order
RECURSIVE Samples(_, _)
Samples(cands, n) ==
    IF n = 0 THEN {<<>>}
    ELSE UNION {{Append(q, i) : i \in cands \ Range(q)} :
                    q \in Samples(cands, n - 1)}

\* line 302: the options of a question's radio
Options(row) == <<"Option A", "Option B", "Option C", row.correct_answer>>

\* lines 300-305: the value a radio returns: the option at the position held
\* for its key, the first option for a key without a value
radio_position(rad, idx) == IF idx \in DOMAIN rad THEN rad[idx] ELSE 0

radio_value(rad, table, idx) == Options(table[idx])[radio_position(rad, idx) + 1]

\* the radio values after the loop of lines 287-307 has rendered q
radio_rendered(rad, q) ==
    [idx \in (DOMAIN rad) \cup Range(q) |-> radio_position(rad, idx)]

\* the assignment of line 306 left out: the answers map is never written
record_answers_missing(ans, rad, table, q) == ans

\* lines 282-283, 306: answers[idx] = answer for every sampled row
record_answers(ans, rad, table, q) ==
    [idx \in (DOMAIN ans) \cup Range(q) |->
        IF idx \in Range(q) THEN radio_value(rad, table, idx) ELSE ans[idx]]

\* line 317
is_correct(user_answer, row) == user_answer = row.correct_answer

\* lines 329-330: int(correct)
IntOfBool(b) == IF b THEN 1 ELSE 0

\* lines 321-332
new_row(sid, row, user_answer, secs) ==
    [student_id |-> sid,
     question_id |-> row.question_id,
     topic |-> row.topic,
     difficulty |-> row.difficulty,
     question_type |-> row.question_type,
     student_answer |-> user_answer,
     correct_answer |-> row.correct_answer,
     is_correct |-> IntOfBool(is_correct(user_answer, row)),
     score |-> IntOfBool(is_correct(user_answer, row)),
     time_spent |-> secs]

\* lines 315-332: the rows of the submission, in sample order
new_rows(sid, table, q, ans, secs) ==
    [j \in 1..Len(q) |-> new_row(sid, table[q[j]], ans[q[j]], secs[j])]

\* correct_count incremented for every question, outside the test of line 318
count_all(table, q, ans) == Len(q)

\* lines 313-319
count_correct(table, q, ans) ==
    Cardinality({j \in 1..Len(q) : is_correct(ans[q[j]], table[q[j]])})

\* the operands of the concatenation exchanged: the new rows come first
concat_front(table, rows) == rows \o table

\* line 334: pd.concat([df, pd.DataFrame(new_rows)], ignore_index=True)
concat(table, rows) == table \o rows

\* lines 337, 341: (correct_count / len(exam_questions)) * 100 printed with
\* one decimal, in tenths of a percent (for 1..5 questions no value is a tie)
exam_score(c, n) == (2000 * c + n) \div (2 * n)

\* what a run leaves in the browser: the page, the rows whose question and
\* radio it shows, the topics it lists, the score it reports and the
\* exception it ended with
Shown(kind, questions, topics, report, error) ==
    [kind |-> kind, questions |-> questions, topics |-> topics,
     report |-> report, error |-> error]

NoReport == <<>>

---------------------------------------------------------------------------------------------------------------------------------------------------
(* Interactions: each one changes a widget value and starts a run of the
   script, whose first effect is the load of line 102 *)

StartRun(s, cap, clicked) ==
    /\ pc[s] = "idle"
    /\ Len(disk) <= cap
    /\ pc' = [pc EXCEPT ![s] = "login"]
    /\ df' = [df EXCEPT ![s] = read_csv(disk)]
    /\ submit' = [submit EXCEPT ![s] = clicked]
    /\ UNCHANGED <<disk, rules, answers, exam_questions, correct_count, screen>>

\* line 111: the user types an identifier
TypeStudentId(s, cap, ids) ==
    \E sid \in ids :
        /\ sid # student_id[s]
        /\ StartRun(s, cap, FALSE)
        /\ student_id' = [student_id EXCEPT ![s] = sid]
        /\ UNCHANGED <<page, radio>>

\* lines 131-135: the user picks a page; the navigation is on the screen
\* only after a run that passed the login check
Navigate(s, cap, pages) ==
    \E p \in pages :
        /\ p # page[s]
        /\ screen[s].kind \in Pages
        /\ StartRun(s, cap, FALSE)
        /\ page' = [page EXCEPT ![s] = p]
        /\ UNCHANGED <<student_id, radio>>

\* lines 300-305: the user picks an option of a question on the screen
SelectAnswer(s, cap) ==
    \E idx \in screen[s].questions, choice \in RadioChoices :
        /\ choice # radio_position(radio[s], idx)
        /\ StartRun(s, cap, FALSE)
        /\ radio' = [radio EXCEPT ![s] =
                        [k \in (DOMAIN @) \cup {idx} |->
                            IF k = idx THEN choice ELSE @[k]]]
        /\ UNCHANGED <<student_id, page>>

\* line 311: the user clicks Submit Exam, which is on the screen below the
\* questions
ClickSubmit(s, cap) ==
    /\ screen[s].questions # {}
    /\ StartRun(s, cap, TRUE)
    /\ UNCHANGED <<student_id, page, radio>>

----------------------------------------------------------------------------
(* The steps of a run *)

\* a run ends, by reaching the last line, by st.stop() or by an exception:
\* the browser shows what it rendered, the button is released and the
\* script's variables are gone
EndRun(s, shown) ==
    /\ pc' = [pc EXCEPT ![s] = "idle"]
    /\ submit' = [submit EXCEPT ![s] = FALSE]
    /\ screen' = [screen EXCEPT ![s] = shown]
    /\ df' = [df EXCEPT ![s] = <<>>]
    /\ exam_questions' = [exam_questions EXCEPT ![s] = <<>>]
    /\ correct_count' = [correct_count EXCEPT ![s] = 0]

\* st.stop() at line 120 or 124 ends the run as its last line would:
\* Streamlit drops the values of the widgets the run did not render, which
\* are the navigation radio and the question radios
Stopped(s, kind) ==
    /\ EndRun(s, Shown(kind, {}, {}, NoReport, ""))
    /\ page' = [page EXCEPT ![s] = "Dashboard"]
    /\ radio' = [radio EXCEPT ![s] = EmptyMap]

\* lines 113-126
Login(s) ==
    /\ pc[s] = "login"
    /\ IF student_id[s] = ""
       THEN Stopped(s, "welcome")
       ELSE IF ~login_ok(student_id[s], df[s])
       THEN Stopped(s, "invalid")
       ELSE /\ pc' = [pc EXCEPT ![s] = "page"]
            /\ UNCHANGED <<submit, screen, df, exam_questions, correct_count,
                           page, radio>>
    /\ UNCHANGED <<disk, rules, student_id, answers>>

\* a page without question radios ran to its end: Streamlit drops the values
\* of the question radios, which the run did not render
PlainPage(s, name, topics) ==
    /\ pc[s] = "page"
    /\ page[s] = name
    /\ EndRun(s, Shown(name, {}, topics, NoReport, ""))
    /\ radio' = [radio EXCEPT ![s] = EmptyMap]
    /\ UNCHANGED <<disk, rules, student_id, page, answers>>

\* lines 157-207
Dashboard(s) == PlainPage(s, "Dashboard", {})

\* lines 212-265
Analytics(s) == PlainPage(s, "Analytics", {})

\* lines 348-381
Recommendations(s) ==
    PlainPage(s, "AI Recommendations",
              get_recommendations(student_id[s], df[s], rules))

\* lines 270-311: recommendations, fallback, sample, the questions' radios
TakeExam(s) ==
    /\ pc[s] = "page"
    /\ page[s] = "Take Exam"
    /\ LET found == get_recommendations(student_id[s], df[s], rules)
           fallback == found = {}
           recs == IF fallback THEN unique_topics(df[s]) ELSE found
           cands == candidates(df[s], recs)
           n == sample_size(df[s])
       IN  IF truth_raises(fallback, recs) \/ n > Cardinality(cands)
           THEN \* ValueError at line 278 or in sample at line 280; Streamlit
                \* keeps the widget values of a run that raised
                /\ EndRun(s, Shown("Take Exam", {}, {}, NoReport, "ValueError"))
                /\ UNCHANGED <<radio, answers>>
           ELSE \E q \in Samples(cands, n) :
                /\ answers' = [answers EXCEPT ![s] =
                                  record_answers(@, radio[s], df[s], q)]
                /\ IF submit[s]
                   THEN /\ pc' = [pc EXCEPT ![s] = "submit"]
                        /\ exam_questions' = [exam_questions EXCEPT ![s] = q]
                        /\ radio' = [radio EXCEPT ![s] = radio_rendered(@, q)]
                        /\ UNCHANGED <<submit, screen, df, correct_count>>
                   ELSE /\ EndRun(s, Shown("Take Exam", Range(q), {}, NoReport, ""))
                        /\ radio' = [radio EXCEPT ![s] =
                                        Restrict(radio_rendered(@, q), Range(q))]
    /\ UNCHANGED <<disk, rules, student_id, page>>

\* lines 311-334: the Submit Exam handler up to the concatenation
Submit(s) ==
    /\ pc[s] = "submit"
    /\ LET q == exam_questions[s]
       IN  IF \E j \in 1..Len(q) : q[j] \notin DOMAIN answers[s]
           THEN \* KeyError at line 316
                EndRun(s, Shown("Take Exam", Range(q), {}, NoReport, "KeyError"))
           ELSE \E secs \in [1..Len(q) -> TimeSpentDraws] :
                /\ correct_count' = [correct_count EXCEPT ![s] =
                                        count_correct(df[s], q, answers[s])]
                /\ df' = [df EXCEPT ![s] =
                             concat(@, new_rows(student_id[s], df[s], q,
                                                answers[s], secs))]
                /\ pc' = [pc EXCEPT ![s] = "persist"]
                /\ UNCHANGED <<submit, screen, exam_questions>>
    /\ UNCHANGED <<disk, rules, student_id, page, radio, answers>>

\* the write of line 335 in append mode: the new rows are added to whatever
\* the file holds at that moment
PersistAppend(s) ==
    /\ pc[s] = "persist"
    /\ LET q == exam_questions[s]
           own == SubSeq(df[s], Len(df[s]) - Len(q) + 1, Len(df[s]))
       IN  /\ disk' = disk \o to_csv(own)
           /\ EndRun(s, Shown("Take Exam", Range(q), {},
                              <<correct_count[s], Len(q),
                                exam_score(correct_count[s], Len(q))>>, ""))
           /\ radio' = [radio EXCEPT ![s] = Restrict(@, Range(q))]
    /\ UNCHANGED <<rules, student_id, page, answers>>

\* lines 335-343: the file is overwritten with the whole table, then the
\* score is computed and shown; the run ends and Streamlit drops the values
\* of the radios it did not render
Persist(s) ==
    /\ pc[s] = "persist"
    /\ disk' = to_csv(df[s])
    /\ LET q == exam_questions[s]
       IN  IF Len(q) = 0
           THEN \* ZeroDivisionError at line 337
                /\ EndRun(s, Shown("Take Exam", Range(q), {}, NoReport, "ZeroDivisionError"))
                /\ UNCHANGED radio
           ELSE /\ EndRun(s, Shown("Take Exam", Range(q), {},
                                   <<correct_count[s], Len(q),
                                     exam_score(correct_count[s], Len(q))>>, ""))
                /\ radio' = [radio EXCEPT ![s] = Restrict(@, Range(q))]
    /\ UNCHANGED <<rules, student_id, page, answers>>

\* the score computed and shown before the write, so that a failed write
\* leaves it on the screen
PersistFailsReports(s) ==
    /\ pc[s] = "persist"
    /\ LET q == exam_questions[s]
       IN  EndRun(s, Shown("Take Exam", Range(q), {},
                           <<correct_count[s], Len(q),
                             exam_score(correct_count[s], Len(q))>>, "OSError"))
    /\ UNCHANGED <<disk, rules, student_id, page, radio, answers>>

\* line 335 raises (the file cannot be opened for writing, so it keeps its
\* content): the run ends with the exception, the lines after it are not
\* executed, and Streamlit keeps the widget values of a run that raised
PersistFails(s) ==
    /\ pc[s] = "persist"
    /\ EndRun(s, Shown("Take Exam", Range(exam_questions[s]), {}, NoReport, "OSError"))
    /\ UNCHANGED <<disk, rules, student_id, page, radio, answers>>

-----
(* Specifications *)

InitWith(store, rls) ==
    /\ disk = to_csv(store)
    /\ rules = rls
    /\ pc = [s \in Sessions |-> "idle"]
    /\ student_id = [s \in Sessions |-> ""]
    /\ page = [s \in Sessions |-> "Dashboard"]
    /\ radio = [s \in Sessions |-> EmptyMap]
    /\ answers = [s \in Sessions |-> EmptyMap]
    /\ submit = [s \in Sessions |-> FALSE]
    /\ df = [s \in Sessions |-> <<>>]
    /\ exam_questions = [s \in Sessions |-> <<>>]
    /\ correct_count = [s \in Sessions |-> 0]
    /\ screen = [s \in Sessions |-> Shown("welcome", {}, {}, NoReport, "")]

Step(s, cap) ==
    \/ TypeStudentId(s, cap, StudentInputs)
    \/ Navigate(s, cap, Pages)
    \/ SelectAnswer(s, cap)
    \/ ClickSubmit(s, cap)
    \/ Login(s)
    \/ Dashboard(s)
    \/ Analytics(s)
    \/ Recommendations(s)
    \/ TakeExam(s)
    \/ Submit(s)
    \/ Persist(s)
    \/ PersistFails(s)

\* one session on a small store
Init ==
    \/ InitWith(StoreThree, RulesMatching)
    \/ InitWith(StoreThree, RulesOther)
    \/ InitWith(StoreTwo, RulesMatching)
    \/ InitWith(StoreTwo, RulesOther)

Next == Step("A", MaxRows)

Spec == Init /\ [][Next]_vars

\* one session on the five-row store
InitFive == InitWith(StoreFive, RulesMatching)

NextFive == Step("A", MaxRowsFive)

SpecFive == InitFive /\ [][NextFive]_vars

\* two sessions sharing the file, each of a student who logs in, goes to the
\* Take Exam page, answers and submits
InitRace == InitWith(StorePair, RulesMatching)

TakeOnly(s, cap) ==
    \/ TypeStudentId(s, cap, {"S1"})
    \/ Navigate(s, cap, {"Take Exam"})
    \/ SelectAnswer(s, cap)
    \/ ClickSubmit(s, cap)
    \/ Login(s)
    \/ Dashboard(s)
    \/ TakeExam(s)
    \/ Submit(s)
    \/ Persist(s)
    \/ PersistFails(s)

NextRace == \E s \in Sessions : TakeOnly(s, MaxRowsRace)

SpecRace == InitRace /\ [][NextRace]_vars

\* one session of such a student, who may submit twice
NextRepeat == TakeOnly("A", MaxRowsRepeat)

SpecRepeat == InitRace /\ [][NextRepeat]_vars

\* one session of a student who logs in, goes to the Take Exam page of the
\* six-row store and submits what is shown
InitPool == InitWith(StoreSix, RulesMatching)

SubmitOnce(s, cap) ==
    \/ TypeStudentId(s, cap, {"S1"})
    \/ Navigate(s, cap, {"Take Exam"})
    \/ ClickSubmit(s, cap)
    \/ Login(s)
    \/ Dashboard(s)
    \/ TakeExam(s)
    \/ Submit(s)
    \/ Persist(s)

NextPool == SubmitOnce("A", MaxRowsPool)

SpecPool == InitPool /\ [][NextPool]_vars

----------------------------------------------------------------------------
(* Properties *)

\* the integers of a range, and the absolute value
Abs(x) == IF x < 0 THEN 0 - x ELSE x

\* the topics the claim of the resolver names: weak topics t for which some
\* antecedents cell holds "Topic_" + t character for character
LiteralRecommendations(sid, table, rls) ==
    {t \in weak_topics(sid, table) :
        \E a \in rls : LiteralContains(a, TopicPattern(t))}

\* C1: whenever a run has passed the login check, get_recommendations for the
\* logged-in student, the loaded table and the rule table is exactly the set
\* of the student's weak topics t for which some rule's antecedents contains
\* the literal substring "Topic_" + t.
C1_LiteralSubstring ==
    \A s \in Sessions :
        pc[s] = "page" =>
            get_recommendations(student_id[s], df[s], rules)
                = LiteralRecommendations(student_id[s], df[s], rules)

\* the topic set and the candidate rows of a session, as the Exam Session
\* contract defines them
SessionTopics(sid, table, rls) ==
    IF get_recommendations(sid, table, rls) = {}
    THEN unique_topics(table)
    ELSE get_recommendations(sid, table, rls)

SessionCandidates(sid, table, rls) ==
    candidates(table, SessionTopics(sid, table, rls))

\* C2: a visit of the Take Exam page by a student whose recommendations are
\* not empty starts a session: it ends without an error and shows exactly
\* min(5, |candidates|) distinct rows, all of them candidates.
C2_ClampedToCandidates ==
    \A s \in Sessions :
        LET table == read_csv(disk)
            cands == SessionCandidates(student_id[s], table, rules)
        IN  ( /\ pc[s] = "idle"
              /\ screen[s].kind = "Take Exam"
              /\ screen[s].report = NoReport
              /\ get_recommendations(student_id[s], table, rules) # {} )
            => /\ screen[s].error # "ValueError"
               /\ Cardinality(screen[s].questions)
                    = Min(SampleSize, Cardinality(cands))
               /\ screen[s].questions \subseteq cands

\* C3: a visit of the Take Exam page by a student whose recommendations are
\* empty does not fail: it shows a session drawn from the whole pool.
C3_FallbackToFullPool ==
    \A s \in Sessions :
        LET table == read_csv(disk)
        IN  ( /\ pc[s] = "idle"
              /\ screen[s].kind = "Take Exam"
              /\ screen[s].report = NoReport
              /\ get_recommendations(student_id[s], table, rules) = {} )
            => /\ screen[s].error # "ValueError"
               /\ screen[s].questions # {}
               /\ screen[s].questions \subseteq 1..Len(table)

\* C4: the rows the Submit handler scores are the rows whose questions were
\* on the screen when the student clicked Submit Exam.
C4_ScoresTheShownSession ==
    \A s \in Sessions :
        pc[s] \in {"submit", "persist"} =>
            Range(exam_questions[s]) = screen[s].questions

\* the rows a session's submission adds, and the table it loaded, while the
\* run is between the concatenation and the write
OwnRows(s) ==
    SubSeq(df[s], Len(df[s]) - Len(exam_questions[s]) + 1, Len(df[s]))

LoadedTable(s) == SubSeq(df[s], 1, Len(df[s]) - Len(exam_questions[s]))

\* the step of session s is the end of a submission whose score is reported
ReportsScore(s) ==
    /\ pc[s] = "persist"
    /\ pc'[s] = "idle"
    /\ screen'[s].report # NoReport

\* C5: with one session, a submission of N questions keeps every row of the
\* file in place and adds exactly N rows after them; reloaded, row j of them
\* carries the student's id, the fields of the j-th question, the answer
\* given to it and a time_spent within [15, 60].
C5_AppendOnly ==
    [][ ReportsScore("A") =>
          LET q == exam_questions["A"]
              old == read_csv(disk)
              new == read_csv(disk')
          IN  /\ Len(disk') = Len(disk) + Len(q)
              /\ SubSeq(disk', 1, Len(disk)) = disk
              /\ \A j \in 1..Len(q) :
                    LET r == new[Len(disk) + j]
                        asked == old[q[j]]
                    IN  /\ r.student_id = student_id["A"]
                        /\ r.question_id = asked.question_id
                        /\ r.topic = asked.topic
                        /\ r.difficulty = asked.difficulty
                        /\ r.question_type = asked.question_type
                        /\ r.correct_answer = asked.correct_answer
                        /\ r.student_answer = answers["A"][q[j]]
                        /\ r.time_spent \in TimeSpentLo..TimeSpentHi
      ]_vars

\* two submissions in a row, of two and of four questions, have been
\* written: the file holds eight rows
C5_Witness ==
    /\ screen["A"].report # NoReport
    /\ Cardinality(screen["A"].questions) = 4
    /\ Len(disk) = 8

\* C6: a session's write leaves the file holding exactly the table that
\* session loaded followed by its own new rows, so rows another session wrote
\* after that load are gone, and the session reports the count of its own
\* correct answers.
C6_LaterOverwriteWins ==
    [][ \A s \in Sessions :
          ReportsScore(s) =>
              /\ disk' = to_csv(LoadedTable(s)) \o to_csv(OwnRows(s))
              /\ screen'[s].report[1] =
                    Cardinality({j \in 1..Len(OwnRows(s)) :
                                    OwnRows(s)[j].is_correct = 1})
              /\ screen'[s].report[2] = Len(OwnRows(s))
      ]_vars

\* both sessions loaded the two-row file, A wrote four rows, then B wrote its
\* four rows over them: both show a score, the file holds B's rows only
C6_Witness ==
    /\ screen["A"].report # NoReport
    /\ screen["B"].report # NoReport
    /\ pc["A"] = "idle"
    /\ pc["B"] = "idle"
    /\ Len(disk) = 4

\* C7: while a submission of n questions is between the concatenation and
\* the write, each of its rows has is_correct = 1 exactly when student_answer
\* equals correct_answer, and score = is_correct in {0, 1}; correct_count is
\* the number of rows with is_correct = 1 and lies in 0..n; the reported
\* pair is that count and n, and the reported accuracy is 100 * count / n
\* to the nearest tenth.
C7_Scoring ==
    \A s \in Sessions :
        /\ pc[s] = "persist" =>
              LET rows == OwnRows(s)
                  right == {j \in 1..Len(rows) : rows[j].is_correct = 1}
              IN  /\ \A j \in 1..Len(rows) :
                        /\ rows[j].is_correct \in {0, 1}
                        /\ rows[j].is_correct = 1
                              <=> rows[j].student_answer = rows[j].correct_answer
                        /\ rows[j].score = rows[j].is_correct
                  /\ correct_count[s] = Cardinality(right)
                  /\ correct_count[s] \in 0..Len(rows)
        /\ screen[s].report # NoReport =>
              LET c == screen[s].report[1]
                  n == screen[s].report[2]
                  tenths == screen[s].report[3]
                  table == read_csv(disk)
                  right == {j \in 1..n :
                                table[Len(table) - n + j].is_correct = 1}
              IN  /\ n = Cardinality(screen[s].questions)
                  /\ c = Cardinality(right)
                  /\ c \in 0..n
                  /\ 2 * Abs(tenths * n - 1000 * c) <= n

\* a submission of five questions with three correct answers shows 60.0 %
C7_Witness ==
    /\ screen["A"].report = <<3, 5, 600>>
    /\ pc["A"] = "idle"

\* the identifier typed by the user occurs in the student_id column
Known(sid, table) == sid \in {table[i].student_id : i \in 1..Len(table)}

\* C8: a run whose identifier is not empty and does not occur in the loaded
\* table ends at the login check: its next step shows the rejection alone (no
\* page, no topics, no questions, no score), and leaves the file, the sampled
\* questions and the answers as they were.
C8_UnknownStudentRejected ==
    [][ \A s \in Sessions :
          ( /\ pc[s] = "login"
            /\ student_id[s] # ""
            /\ ~Known(student_id[s], df[s])
            /\ pc'[s] # pc[s] )
          => /\ pc'[s] = "idle"
             /\ screen'[s] = Shown("invalid", {}, {}, NoReport, "")
             /\ disk' = disk
             /\ exam_questions'[s] = <<>>
             /\ answers'[s] = answers[s]
      ]_vars

\* the stranger S999 has been rejected
C8_Witness ==
    /\ student_id["A"] = "S999"
    /\ pc["A"] = "idle"
    /\ screen["A"].kind = "invalid"

\* C9: a submission whose write failed shows the session's score.
C9_ScoreReportedDespiteFailure ==
    \A s \in Sessions :
        screen[s].error = "OSError" => screen[s].report # NoReport

\* C9 as amended: a submission whose write failed shows no score, and a
\* score is shown only by a run that ended without an exception.
C9_NoScoreAfterFailedWrite ==
    \A s \in Sessions :
        /\ screen[s].error = "OSError" => screen[s].report = NoReport
        /\ screen[s].report # NoReport => screen[s].error = ""

\* a submission's write has failed
C9_Witness ==
    /\ screen["A"].error = "OSError"
    /\ pc["A"] = "idle"
    /\ screen["A"].questions # {}

\* C10: when the Submit handler is about to run, the student is logged in,
\* the sampled question list is not empty and every sampled row has an entry
\* in the answers map, equal to the value of the row's radio in this run; no
\* run ends with a KeyError or a ZeroDivisionError.
C10_AnswersPresent ==
    \A s \in Sessions :
        /\ pc[s] = "submit" =>
              /\ Known(student_id[s], df[s])
              /\ exam_questions[s] # <<>>
              /\ \A idx \in Range(exam_questions[s]) :
                    /\ idx \in DOMAIN answers[s]
                    /\ answers[s][idx] = radio_value(radio[s], df[s], idx)
        /\ pc[s] = "persist" => Len(exam_questions[s]) > 0
        /\ screen[s].error \notin {"KeyError", "ZeroDivisionError"}

\* the handler is about to score five questions, one of which was not on the
\* screen when the student clicked
C10_Witness ==
    /\ pc["A"] = "submit"
    /\ student_id["A"] = "S1"
    /\ Len(exam_questions["A"]) = 5
    /\ Range(exam_questions["A"]) # screen["A"].questions

====
